---------------------------- MODULE Spec2Model ----------------------------
(***************************************************************************)
(* The best-fix reasoning engine of shiftleft-utils/bestfix.py:            *)
(* find_best_fix walks the dataflow steps of every finding of a batch,     *)
(* builds the taint trail and the location trail, reads a code snippet at  *)
(* the sink, decides the fix text by a rule cascade, and groups finding    *)
(* ids into three cohort maps which cohort_analysis reports at the end.    *)
(*                                                                         *)
(* Python strings are TLA+ strings; the string operations of the code      *)
(* (in, split, replace, lower, join, unquote, int, str) are operators      *)
(* that compute what the Python operations compute.                        *)
(***************************************************************************)
EXTENDS Integers, Sequences, FiniteSets, TLC

(***************************************************************************)
(* Python string operations                                                *)
(***************************************************************************)

\* A missing dictionary key (dict.get returning None).
None == "<None>"

\* s[i] as a one-character string (1-based).
Char(s, i) == SubSeq(s, i, i)

\* The first index >= from at which sub occurs in s, 0 when there is none (str.find).
Find(sub, s, from) ==
    LET Match(i) == SubSeq(s, i, i + Len(sub) - 1) = sub
        range == from..(Len(s) - Len(sub) + 1)
    IN  IF \E i \in range : Match(i)
        THEN CHOOSE i \in range : Match(i) /\ \A j \in from..(i - 1) : ~Match(j)
        ELSE 0

\* Python's `sub in s` on strings.
Contains(sub, s) == Find(sub, s, 1) # 0

\* s.split(sep), sep not empty.
RECURSIVE Split(_, _)
Split(s, sep) ==
    LET i == Find(sep, s, 1)
    IN  IF i = 0 THEN <<s>>
        ELSE <<SubSeq(s, 1, i - 1)>> \o Split(SubSeq(s, i + Len(sep), Len(s)), sep)

\* s.replace(old, new), old not empty: non-overlapping occurrences, left to right.
RECURSIVE Replace(_, _, _)
Replace(s, old, new) ==
    LET i == Find(old, s, 1)
    IN  IF i = 0 THEN s
        ELSE SubSeq(s, 1, i - 1) \o new \o Replace(SubSeq(s, i + Len(old), Len(s)), old, new)

\* sep.join(seq)
RECURSIVE Join(_, _)
Join(sep, seq) ==
    IF seq = <<>> THEN ""
    ELSE IF Len(seq) = 1 THEN seq[1]
    ELSE seq[1] \o sep \o Join(sep, Tail(seq))

UpperLetters == "ABCDEFGHIJKLMNOPQRSTUVWXYZ"
LowerLetters == "abcdefghijklmnopqrstuvwxyz"

\* s.lower() on ASCII text.
RECURSIVE Lower(_)
Lower(s) ==
    IF s = "" THEN ""
    ELSE LET c == Char(s, 1)
             i == Find(c, UpperLetters, 1)
         IN  (IF i = 0 THEN c ELSE Char(LowerLetters, i)) \o Lower(SubSeq(s, 2, Len(s)))

DecDigits == "0123456789"

\* str(n) / f"{n}" of a non-negative int.
RECURSIVE IntToStr(_)
IntToStr(n) ==
    IF n < 10 THEN Char(DecDigits, n + 1)
    ELSE IntToStr(n \div 10) \o Char(DecDigits, (n % 10) + 1)

\* Whether int(s) succeeds on s (decimal digits only; signs and blanks are not
\* produced by the code's own formatting).
IsInt(s) == Len(s) > 0 /\ \A i \in 1..Len(s) : Contains(Char(s, i), DecDigits)

\* int(s) for a string of decimal digits.
RECURSIVE StrToInt(_)
StrToInt(s) ==
    IF Len(s) = 0 THEN 0
    ELSE 10 * StrToInt(SubSeq(s, 1, Len(s) - 1)) + (Find(Char(s, Len(s)), DecDigits, 1) - 1)

\* The percent escapes the model decodes: <<two hexadecimal digits, character>>.
PercentCodes == <<<<"20", " ">>, <<"25", "%">>, <<"2F", "/">>, <<"2f", "/">>,
                  <<"3A", ":">>, <<"3a", ":">>, <<"7C", "|">>, <<"7c", "|">>>>

\* The character %hex stands for, "" when the model does not decode it.
PercentChar(hex) ==
    LET hits == {k \in 1..Len(PercentCodes) : PercentCodes[k][1] = hex}
    IN  IF hits = {} THEN "" ELSE PercentCodes[CHOOSE k \in hits : TRUE][2]

\* urllib.parse.unquote: every %XX escape becomes its character, left to right;
\* a % that starts no escape stays as it is. (The escapes are those of
\* PercentCodes; the file names of the model use no others.)
RECURSIVE Unquote(_)
Unquote(s) ==
    LET i == Find("%", s, 1)
    IN  IF i = 0 THEN s
        ELSE IF i + 2 <= Len(s) /\ PercentChar(SubSeq(s, i + 1, i + 2)) # ""
             THEN SubSeq(s, 1, i - 1) \o PercentChar(SubSeq(s, i + 1, i + 2))
                  \o Unquote(SubSeq(s, i + 3, Len(s)))
             ELSE SubSeq(s, 1, i) \o Unquote(SubSeq(s, i + 1, Len(s)))

\* seq[-1]
Last(seq) == seq[Len(seq)]

(***************************************************************************)
(* The source tree the snippets are read from                              *)
(***************************************************************************)

\* source_dir and app["id"] of the run.
SourceDir == "/repo"
AppId == "shop"

\* os.path.join of two parts.
PathJoin(dir, name) == dir \o "/" \o name

\* The text files under source_dir: <<path, lines>>, every line with its newline.
SourceTree ==
    << <<"/repo/a.py",
         << "def handler(req):\n", "    id = req.args.get(key)\n", "    q = build(id)\n",
            "    log(q)\n", "    pass\n", "    pass\n", "    pass\n", "    pass\n",
            "    pass\n", "    pass\n", "    pass\n", "    return run(q, tmp)\n" >> >>,
       <<"/repo/b.html",
         << "<html>\n", "<p>{{ name }}</p>\n", "</html>\n" >> >>,
       <<"/repo/c.py",
         << "def run(q):\n", "    cur = db.cursor()\n", "    cur.execute(q,id)\n" >> >>,
       <<"/repo/d.py",
         << "import os\n", "\n", "def load(path):\n", "    fh = open(path)\n",
            "    return fh.read()\n", "# end\n" >> >>,
       <<"/repo/src/main/java/Dao.java",
         << "class Dao {\n", "  void find(String id) {\n", "    stmt.execute(sql+id);\n",
            "  }\n", "}\n" >> >> >>

\* os.path.exists: the files of SourceTree (no directory /repo/shop exists).
PathExists(path) == \E k \in 1..Len(SourceTree) : SourceTree[k][1] = path

\* linecache.getline(path, line): the line, "" when the file or the line is missing.
GetLine(path, line) ==
    LET hits == {k \in 1..Len(SourceTree) : SourceTree[k][1] = path}
    IN  IF hits = {} THEN ""
        ELSE LET lines == SourceTree[CHOOSE k \in hits : TRUE][2]
             IN  IF line >= 1 /\ line <= Len(lines) THEN lines[line] ELSE ""

\* The path _get_code_line reads for fname.
ResolvePath(fname) ==
    LET dir == IF PathExists(PathJoin(SourceDir, AppId)) THEN PathJoin(SourceDir, AppId)
               ELSE SourceDir
        full_path == PathJoin(dir, fname)
        java_path == PathJoin(PathJoin(PathJoin(PathJoin(dir, "src"), "main"), "java"), fname)
    IN  IF PathExists(full_path) THEN full_path
        ELSE IF PathExists(java_path) THEN java_path
        ELSE full_path

\* The symbols _get_code_line never reports.
SnippetStoplist == {"this", "self", "req", "res", "p1"}

\* text with spacing put around var next to a parenthesis or a comma.
Highlight(text, var) ==
    Replace(Replace(Replace(Replace(text,
        "(" \o var, "( " \o var \o " "),
        var \o ")", " " \o var \o " )"),
        "," \o var, ", " \o var \o " "),
        var \o ",", " " \o var \o " ,")

\* The loop over the variables in _get_code_line, from index k on: the first
\* variable that occurs in text and is not stoplisted ends the loop.
RECURSIVE ScanVariables(_, _, _)
ScanVariables(text, variables, k) ==
    IF k > Len(variables) THEN [text |-> text, variable_detected |-> ""]
    ELSE LET var == variables[k]
         IN  IF Contains(var, text) /\ ~Contains("$", var) /\ var \notin SnippetStoplist
             THEN [text |-> Highlight(text, var), variable_detected |-> var]
             ELSE ScanVariables(text, variables, k + 1)

\* _get_code_line(source_dir, app, fname, line, variables)
GetCodeLine(fname, line, variables) ==
    ScanVariables(GetLine(ResolvePath(fname), line), variables, 1)

\* The default of get_code's max_lines.
DefaultMaxLines == 3

\* The loop of get_code from `line` up to lmax (exclusive): stops at the first
\* empty text; keeps the first variable detected.
RECURSIVE GetCodeLoop(_, _, _, _, _, _)
GetCodeLoop(fname, line, lmax, variables, lines, variable_detected) ==
    IF line >= lmax THEN [lines |-> lines, variable_detected |-> variable_detected]
    ELSE LET r == GetCodeLine(fname, line, variables)
             v == IF variable_detected = "" /\ r.variable_detected # ""
                  THEN r.variable_detected ELSE variable_detected
         IN  IF Len(r.text) = 0 THEN [lines |-> lines, variable_detected |-> v]
             ELSE GetCodeLoop(fname, line + 1, lmax, variables,
                              Append(lines, IntToStr(line) \o " " \o r.text), v)

Max(a, b) == IF a >= b THEN a ELSE b

\* get_code(source_dir, app, fname, lineno, variables, max_lines): pair is FALSE
\* when the bare "" is returned (no file name), which the caller cannot unpack.
GetCode(fname, lineno, variables, max_lines_arg) ==
    IF fname = "" THEN [pair |-> FALSE, code_snippet |-> "", variable_detected |-> ""]
    ELSE LET max_lines == Max(max_lines_arg, 1)
             lmin == Max(1, lineno - (max_lines \div 2))
             lmax == lmin + max_lines - 1
             r == GetCodeLoop(fname, lmin, lmax, variables, <<>>, "")
         IN  [pair |-> TRUE, code_snippet |-> Join("", r.lines),
              variable_detected |-> r.variable_detected]

(***************************************************************************)
(* The findings handed to find_best_fix                                    *)
(***************************************************************************)

\* One dataflow step: its location and the symbols of variable_info, "" for a
\* sub-record that is absent (the key casings of the producers, Parameter or
\* parameter under variable or Variable, are read into these three slots).
Step(file_name, line_number, method_name, short_method_name, parameter, member, local) ==
    [file_name |-> file_name, line_number |-> line_number,
     method_name |-> method_name, short_method_name |-> short_method_name,
     Parameter |-> parameter, Member |-> member, Local |-> local]

StepHandler == Step("a.py", 1, "app.views.handler", "handler", "id", "", "")
StepBuild   == Step("a.py", 3, "app.views.build", "build", "id", "this.user.name", "")
StepCheck   == Step("a.py", 12, "app.util.checkInput", "checkInput", "", "", "")
StepMarkup  == Step("b.html", 2, None, None, "name", "", "")
StepExecute == Step("c.py", 3, "db.Cursor.execute", "execute", "self", "", "")
StepBody    == Step("c.py", 3, "db.Cursor.execute", "execute", "", "req.body", "tmp")
StepLambda  == Step("app.js", 4, "app.js::program:validate:anonymous", "anonymous",
                    "x____obj1", "", "")
StepNoFile  == Step("N/A", 0, "<operator>.assignment", "empty", "p1", "", "")
StepGetter  == Step("Svc.cs", 7, "Shop.Svc.get_Name", "get_Name", "", "this.Name", "")
StepNoName  == Step("Svc.cs", 9, None, None, "", "", "")

\* The steps a trace of SpecTrace is made of.
TraceSteps == {StepHandler, StepBuild, StepCheck, StepMarkup, StepExecute, StepBody,
               StepLambda}

\* The steps of SpecTrail: one location, a symbol each.
TrailSymbols == {"s1", "s2", "s3", "s4", "s5"}
TrailSteps == {Step("d.py", 5, "app.io.load", "load", sym, "", "") : sym \in TrailSymbols}

\* The traces of the batches of Spec: a source step and a sink step, or steps
\* that are skipped or cannot be read.
BatchSteps == {StepHandler, StepBuild, StepCheck, StepExecute, StepNoFile, StepGetter,
               StepNoName}
BatchTraces == {<<>>, <<StepHandler>>, <<StepBuild>>,
                <<StepHandler, StepExecute>>, <<StepHandler, StepCheck>>,
                <<StepBuild, StepExecute>>,
                <<StepNoFile>>, <<StepGetter>>, <<StepNoName>>}

\* The header of a finding: everything of it but the dataflow list.
Header(category, type, source_method, sink_method) ==
    [category |-> category, type |-> type,
     source_method |-> source_method, sink_method |-> sink_method]

\* The (source_method, sink_method) pairs of details: both missing, the same
\* method, two methods.
MethodPairs == {<<"", "">>, <<"app.run", "app.run">>, <<"app.src", "db.sink">>}

TraceHeaders ==
    {Header("SQL Injection", "vuln", m[1], m[2]) : m \in MethodPairs}
    \cup {Header("SQL Injection", "", "app.src", "db.sink"),
          Header("Sensitive Data Leak", "vuln", "app.src", "db.sink")}

TrailHeaders == {Header("Directory Traversal", "vuln", "app.src", "db.sink")}

BatchHeaders == {Header("SQL Injection", "vuln", "app.src", "db.sink"),
                 Header("XSS", "vuln", "app.src", "db.sink"),
                 Header("SQL Injection", "oss_vuln", "app.src", "db.sink"),
                 Header("Log Forging", "vuln", "app.src", "db.sink")}

\* The id of the k-th finding of the batch.
FindingId(k) == "f" \o IntToStr(k)

(***************************************************************************)
(* One iteration of the walk over the dataflow steps (find_best_fix)       *)
(***************************************************************************)

\* The step is not a valid trace step and is skipped.
InvalidLocation(df) == df.file_name = "N/A" \/ df.line_number = 0

\* The test of the C# accessor skip raises TypeError: `"get_" in None`.
AccessorTestRaises(df) ==
    ~InvalidLocation(df) /\ Contains(".cs", df.file_name) /\ df.short_method_name = None

\* Getter/setter steps of C# files are skipped.
AccessorSkipped(df) ==
    /\ Contains(".cs", df.file_name)
    /\ df.short_method_name # None
    /\ (Contains("get_", df.short_method_name) \/ Contains("set_", df.short_method_name))

Skipped(df) == InvalidLocation(df) \/ AccessorSkipped(df)

\* The symbol of the step: three assignments in a row, the last one that
\* applies stands.
ResolveSymbol(df) ==
    LET s0 == ""
        s1 == IF df.Parameter # "" THEN df.Parameter ELSE s0
        s2 == IF df.Member # "" THEN Last(Split(df.Member, ".")) ELSE s1
        s3 == IF df.Local # "" THEN df.Local ELSE s2
    IN  s3

\* The symbols the walk never appends to tracked_list.
TrailStoplist == {"this", "req", "res", "p1"}

\* Whether the walk appends symbol to tracked_list.
Tracked(symbol, tl, file_name) ==
    /\ symbol # ""
    /\ \A k \in 1..Len(tl) : tl[k] # symbol
    /\ ~Contains("____obj", symbol)
    /\ symbol \notin TrailStoplist
    /\ (Contains(".cs", file_name) => ~Contains("Dto", symbol))

\* Whether the step has a usable method name.
HasMethodName(df) ==
    df.short_method_name # None /\ df.short_method_name # ""
    /\ ~Contains("empty", df.short_method_name)

\* The name appended to methods_list: for an anonymous function, the last
\* segment of the method name before the :anonymous marker.
DisplayName(df) ==
    IF Contains("anonymous", df.short_method_name)
    THEN Last(Split(Last(Split(Split(df.method_name, ":anonymous")[1], "::")), ":"))
    ELSE df.short_method_name

\* The labels of a check method (the tuple of find_best_fix).
CheckLabels == {"check", "valid", "sanit"}

IsCheckMethod(name) == \E label \in CheckLabels : Contains(label, Lower(name))

\* file_name:line_number of the step.
LocLine(df) == df.file_name \o ":" \o IntToStr(df.line_number)

\* files_loc_list after the step: the test is on the raw loc_line, the entry
\* appended is the decoded one.
AppendLocation(fl, df) ==
    IF \E k \in 1..Len(fl) : fl[k] = LocLine(df) THEN fl
    ELSE Append(fl, Unquote(LocLine(df)))

(***************************************************************************)
(* The texts of the best fix. The Markdown backquote around a name is      *)
(* written ' here: a TLA+ string cannot hold a backquote.                  *)
(***************************************************************************)

get_category_suggestion(category, variable_detected) ==
    IF category = "Remote Code Execution"
    THEN "Use an allowlist for approved commands and compare '" \o variable_detected
         \o "' and the arguments against this list."
    ELSE IF category = "SQL Injection"
    THEN "Use any alternative SQL method with builtin parameterization capability."
    ELSE IF category = "NoSQL Injection"
    THEN "Use any alternative SDK method with builtin parameterization capability."
    ELSE IF category = "Directory Traversal"
    THEN "Use an allowlist of safe file locations and compare '" \o variable_detected
         \o "' against this list."
    ELSE IF category = "Deserialization"
    THEN "Follow security best practices to configure and use the deserialization library in a safe manner."
    ELSE IF category = "SSRF"
    THEN "Use an allowlist of approved URL domains or service IP addresses and compare '"
         \o variable_detected \o "' against this list."
    ELSE IF category = "XML External Entities"
    THEN "Follow security best practices to configure and use the XML library in a safe manner."
    ELSE ""

\* The distance in lines above which the source gets its own anchor.
AnchorDistance == 3

\* Whether the location block names the source location too.
NeedsSourceAnchor(first_fname, first_lineno, last_fname, last_lineno) ==
    first_fname # last_fname \/ last_lineno - first_lineno > AnchorDistance

LocationSuggestion(first_fname, first_lineno, last_fname, last_lineno) ==
    "- Before or at line " \o IntToStr(last_lineno) \o " in " \o last_fname
    \o (IF NeedsSourceAnchor(first_fname, first_lineno, last_fname, last_lineno)
        THEN "\n- After line " \o IntToStr(first_lineno) \o " in " \o first_fname
        ELSE "")

\* Rule 1: source and sink are the same method.
SameMethodFix(location_suggestion, sink) ==
    "This is likely a best practice finding or a false positive.\n\n"
    \o "**Fix locations:**\n\n" \o location_suggestion \o "\n\n"
    \o "**Remediation suggestions:**\n\n"
    \o "Specify the sink method in your remediation config to suppress this finding.\n\n"
    \o "- " \o sink \o "\n\n"

\* Rules 2 and 3: a tainted parameter (or variables) to validate.
TaintFix(wording, lower_wording, variable, method, suggestion, sink, location_suggestion) ==
    "**Taint:** " \o wording \o " '" \o variable \o "' in the method '" \o method \o "'\n\n"
    \o suggestion \o "\n"
    \o "Validate or Sanitize the " \o lower_wording \o " '" \o variable
    \o "' before invoking the sink '" \o sink \o "'\n\n"
    \o "**Fix locations:**\n\n" \o location_suggestion \o "\n"

\* The suggestion naming the detected check methods.
CheckMethodsFix(check_list) ==
    "\n**Remediation suggestions:**\n\n"
    \o "Include these detected CHECK methods in your remediation config to suppress this finding.\n\n"
    \o "- " \o Join("- ", check_list) \o "\n"

\* Rule 4: the fallback.
FallbackFix(sink) ==
    "This is likely a best practice finding.\n\n"
    \o "**Remediation suggestions:**\n\n"
    \o "Specify the sink method in your remediation config to suppress this finding.\n\n"
    \o "- " \o sink \o "\n\n"

\* The trail above which the summary names three of its symbols.
SummaryThreshold == 4

\* TrailVariable with the summary starting one symbol early.
TrailVariableEarly(tl) ==
    IF Len(tl) > SummaryThreshold - 1
    THEN tl[1] \o ", " \o tl[Len(tl) - 1] \o " and " \o tl[Len(tl)]
    ELSE tl[Len(tl)]

\* variable_detected of the trail branch.
TrailVariable(tl) ==
    IF Len(tl) > SummaryThreshold
    THEN tl[1] \o ", " \o tl[Len(tl) - 1] \o " and " \o tl[Len(tl)]
    ELSE tl[Len(tl)]

\* Parameter_str of the trail branch.
TrailWording(tl) == IF Len(tl) > SummaryThreshold THEN "Variables" ELSE "Parameter"

\* Whether the fallback text replaces best_fix.
FallbackApplies(best_fix) == best_fix = ""

\* The cascade: best_fix and variable_detected from the locals of the finding.
\* raised is TRUE when methods_list[-1] is read from an empty list.
BestFix(category, src, sink, snippet_variable, tl, ml, check_list, location_suggestion) ==
    LET branch == IF src = sink THEN "same"
                  ELSE IF snippet_variable # "" THEN "snippet"
                  ELSE IF tl # <<>> THEN "trail"
                  ELSE "none"
        variable == IF branch = "trail" THEN TrailVariable(tl) ELSE snippet_variable
        raised == branch \in {"snippet", "trail"} /\ ml = <<>>
        text == IF branch = "same" THEN SameMethodFix(location_suggestion, sink)
                ELSE IF branch = "snippet" /\ ~raised
                THEN TaintFix("Parameter", "parameter", variable, Last(ml),
                              get_category_suggestion(category, variable), sink,
                              location_suggestion)
                ELSE IF branch = "trail" /\ ~raised
                THEN TaintFix(TrailWording(tl), TrailWording(tl), variable, Last(ml),
                              get_category_suggestion(category, variable), sink,
                              location_suggestion)
                ELSE ""
        checked == IF check_list # <<>> THEN text \o CheckMethodsFix(check_list) ELSE text
    IN  [raised |-> raised,
         variable_detected |-> variable,
         best_fix |-> IF FallbackApplies(checked) THEN FallbackFix(sink) ELSE checked]

(***************************************************************************)
(* The state of one call of find_best_fix                                  *)
(***************************************************************************)

VARIABLES
    pc,                  \* "loop": between two findings; "walk": in the walk of one;
                         \* "returned": find_best_fix has returned; "raised": an
                         \* exception has left it
    findings,            \* the findings read so far, the current one last, each with
                         \* the dataflow steps read so far
    files_loc_list, tracked_list, methods_list, check_methods,
    source_method, sink_method, symbol,      \* the locals of the current finding
    annotated_findings,  \* the records appended so far (title, version, scan, cvss
                         \* and reachability are copied from the finding and left out)
    source_cohorts, sink_cohorts, source_sink_cohorts,
                         \* <<category, key>> -> list of finding ids
    report,              \* the rows cohort_analysis has put in its table
    earlier,             \* the findings and the result of an execution that has
                         \* returned before this one started, <<>> when there is none
    call                 \* a call of get_code on its own: its arguments, and its
                         \* result once it has returned; <<>> when there is none

locals == <<files_loc_list, tracked_list, methods_list, check_methods,
            source_method, sink_method, symbol>>
cohorts == <<source_cohorts, sink_cohorts, source_sink_cohorts>>
vars == <<pc, findings, locals, annotated_findings, cohorts, report, earlier, call>>

\* An empty cohort map.
EmptyMap == [p \in {} |-> <<>>]

\* m[category].get(key), [] when there is none.
CohortGet(m, category, key) ==
    IF <<category, key>> \in DOMAIN m THEN m[<<category, key>>] ELSE <<>>

\* CohortList with the list started anew at every finding.
CohortListFresh(m, category, key) == <<>>

\* The list the id is appended to: a new list when the key has none or an empty one.
CohortList(m, category, key) ==
    IF CohortGet(m, category, key) = <<>> THEN <<>> ELSE CohortGet(m, category, key)

\* m after `if not m[category].get(key): m[category][key] = []` and the append.
CohortAdd(m, category, key, id) ==
    [p \in DOMAIN m \cup {<<category, key>>} |->
        IF p = <<category, key>> THEN Append(CohortList(m, category, key), id) ELSE m[p]]

\* The key of the combined cohort.
PairKey(first_location, last_location) == first_location \o "|" \o last_location

\* Whether cohort_analysis reports the cohort.
Reported(cohort_findings) == Len(cohort_findings) > 1

\* The rows of cohort_analysis (a dict holds each key once: one row per key).
CohortRows(m) ==
    {[category |-> p[1],
      flow_start |-> Split(p[2], "|")[1],
      flow_end |-> Split(p[2], "|")[2],
      ids |-> m[p]] : p \in {q \in DOMAIN m : Reported(m[q])}}

\* The finding of the current iteration and its steps.
afinding == Last(findings)
dataflows == Last(findings).dataflow

Init ==
    /\ pc = "loop"
    /\ findings = <<>>
    /\ files_loc_list = <<>> /\ tracked_list = <<>> /\ methods_list = <<>>
    /\ check_methods = {}
    /\ source_method = "" /\ sink_method = "" /\ symbol = ""
    /\ annotated_findings = <<>>
    /\ source_cohorts = EmptyMap /\ sink_cohorts = EmptyMap
    /\ source_sink_cohorts = EmptyMap
    /\ report = {}
    /\ earlier = <<>>
    /\ call = <<>>

\* Whether the category is left out of the best-fix reasoning.
IgnoredCategory(category) == Contains("Sensitive", category) \/ Contains("Log", category)

\* The head of the loop over the findings: the next finding is read, and
\* unless its category is ignored the locals are set up for its walk.
StartFinding(headers, max_findings) ==
    /\ pc = "loop"
    /\ Len(findings) < max_findings
    /\ \E h \in headers :
        /\ findings' = Append(findings,
               [id |-> FindingId(Len(findings) + 1), category |-> h.category,
                type |-> h.type, source_method |-> h.source_method,
                sink_method |-> h.sink_method, dataflow |-> <<>>])
        /\ IF IgnoredCategory(h.category)
           THEN UNCHANGED <<pc, locals>>
           ELSE /\ pc' = "walk"
                /\ files_loc_list' = <<>> /\ tracked_list' = <<>>
                /\ methods_list' = <<>> /\ check_methods' = {}
                /\ source_method' = h.source_method
                /\ sink_method' = h.sink_method
                /\ UNCHANGED symbol
    /\ UNCHANGED <<annotated_findings, cohorts, report, earlier, call>>

\* One iteration of the loop over the dataflow steps, on a step of `steps`.
WalkStep(steps) ==
    /\ pc = "walk"
    /\ \E df \in steps :
        /\ findings' = [findings EXCEPT ![Len(findings)].dataflow = Append(@, df)]
        /\ IF AccessorTestRaises(df)
           THEN pc' = "raised" /\ UNCHANGED locals
           ELSE IF Skipped(df)
           THEN UNCHANGED <<pc, locals>>
           ELSE /\ symbol' = ResolveSymbol(df)
                /\ tracked_list' =
                      IF Tracked(ResolveSymbol(df), tracked_list, df.file_name)
                      THEN Append(tracked_list, ResolveSymbol(df)) ELSE tracked_list
                /\ methods_list' =
                      IF HasMethodName(df) THEN Append(methods_list, DisplayName(df))
                      ELSE methods_list
                /\ check_methods' =
                      IF HasMethodName(df) /\ IsCheckMethod(DisplayName(df))
                      THEN check_methods \cup {df.method_name} ELSE check_methods
                /\ source_method' = IF source_method = "" THEN LocLine(df) ELSE source_method
                /\ files_loc_list' = AppendLocation(files_loc_list, df)
                /\ UNCHANGED <<pc, sink_method>>
    /\ UNCHANGED <<annotated_findings, cohorts, report, earlier, call>>

\* sink_method after the walk: the location of the last step when the finding
\* names no sink method.
SinkAfterWalk ==
    IF dataflows # <<>> /\ sink_method = "" THEN LocLine(Last(dataflows)) ELSE sink_method

\* The findings that get a recommendation: `type in ("vuln")`, a test on the
\* string "vuln".
Qualifies(type) == Contains(type, "vuln")

\* LastLocation without the step back from a markup file.
LastLocationNoMarkup(fl) == fl[Len(fl)]

\* The sink location among the locations of the walk.
LastLocation(fl) ==
    IF Contains("html", fl[Len(fl)]) /\ Len(fl) > 2 THEN fl[Len(fl) - 1] ELSE fl[Len(fl)]

FirstLocation(fl) == fl[1]

\* The orders list(check_methods) can give: a set has no order of its own.
ListsOf(set) ==
    {q \in [1..Cardinality(set) -> set] : \A i, j \in 1..Cardinality(set) : i # j => q[i] # q[j]}

\* The end of the walk and the rest of the loop body: the sink method, the
\* type test, the cohorts, the snippet, the cascade and the record.
Decide ==
    /\ pc = "walk"
    /\ sink_method' = SinkAfterWalk
    /\ UNCHANGED <<findings, files_loc_list, tracked_list, methods_list, check_methods,
                   source_method, symbol, report, earlier, call>>
    /\ IF ~Qualifies(afinding.type)
       THEN pc' = "loop" /\ UNCHANGED <<annotated_findings, cohorts>>
       ELSE IF files_loc_list = <<>>
       THEN pc' = "raised" /\ UNCHANGED <<annotated_findings, cohorts>>
       ELSE \E check_list \in ListsOf(check_methods) :
            LET category == afinding.category
                last_location == LastLocation(files_loc_list)
                first_location == FirstLocation(files_loc_list)
                tmpA == Split(last_location, ":")
                tmpB == Split(first_location, ":")
                last_location_fname == tmpA[1]
                first_location_fname == tmpB[1]
                parsed == IsInt(Last(tmpA)) /\ IsInt(Last(tmpB))
                last_location_lineno == StrToInt(Last(tmpA))
                first_location_lineno == StrToInt(Last(tmpB))
                code == GetCode(last_location_fname, last_location_lineno, tracked_list,
                                DefaultMaxLines)
                fix == BestFix(category, source_method, SinkAfterWalk,
                               code.variable_detected, tracked_list, methods_list,
                               check_list,
                               LocationSuggestion(first_location_fname, first_location_lineno,
                                                  last_location_fname, last_location_lineno))
            IN  /\ source_cohorts' =
                       CohortAdd(source_cohorts, category, first_location, afinding.id)
                /\ sink_cohorts' =
                       CohortAdd(sink_cohorts, category, last_location, afinding.id)
                /\ source_sink_cohorts' =
                       CohortAdd(source_sink_cohorts, category,
                                 PairKey(first_location, last_location), afinding.id)
                /\ IF ~parsed \/ ~code.pair \/ fix.raised
                   THEN pc' = "raised" /\ UNCHANGED annotated_findings
                   ELSE /\ pc' = "loop"
                        /\ annotated_findings' = Append(annotated_findings,
                              [id |-> afinding.id,
                               category |-> category,
                               source_method |-> source_method,
                               sink_method |-> SinkAfterWalk,
                               last_location |-> last_location,
                               variable_detected |-> fix.variable_detected,
                               tracked_list |-> Join("\n", tracked_list),
                               check_methods |-> Join("\n", check_list),
                               code_snippet |-> Replace(code.code_snippet, "\n", "\\n"),
                               best_fix |-> Replace(fix.best_fix, "\n", "\\n")])

\* The end of find_best_fix: the cohort report, and the return.
Return ==
    /\ pc = "loop"
    /\ pc' = "returned"
    /\ report' = CohortRows(source_sink_cohorts)
    /\ UNCHANGED <<findings, locals, annotated_findings, cohorts, earlier, call>>

(***************************************************************************)
(* Spec: a batch of findings with short source-to-sink traces.             *)
(***************************************************************************)

MaxFindings == 2

BatchNextSteps == {df \in BatchSteps : Append(dataflows, df) \in BatchTraces}

Next ==
    \/ StartFinding(BatchHeaders, MaxFindings)
    \/ WalkStep(BatchNextSteps)
    \/ Decide
    \/ Return

Spec == Init /\ [][Next]_vars

(***************************************************************************)
(* SpecTrace: one finding, every trace of up to MaxSteps steps.            *)
(***************************************************************************)

MaxSteps == 3

NextTrace ==
    \/ StartFinding(TraceHeaders, 1)
    \/ WalkStep(IF Len(dataflows) < MaxSteps THEN TraceSteps ELSE {})
    \/ Decide
    \/ Return

SpecTrace == Init /\ [][NextTrace]_vars

(***************************************************************************)
(* SpecTrail: one finding, long traces that differ in their symbols.       *)
(***************************************************************************)

MaxTrail == 5

NextTrail ==
    \/ StartFinding(TrailHeaders, 1)
    \/ WalkStep(IF Len(dataflows) < MaxTrail THEN TrailSteps ELSE {})
    \/ Decide
    \/ Return

SpecTrail == Init /\ [][NextTrail]_vars

(***************************************************************************)
(* SpecTwice: find_best_fix is executed on a finding with a trace of up to *)
(* MaxTwice steps, and then once more on the same finding against the same *)
(* source tree.                                                            *)
(***************************************************************************)

MaxTwice == 3

\* Steps with and without a check method.
TwiceSteps == {StepHandler, StepCheck, StepLambda}
TwiceHeaders == {Header("SQL Injection", "vuln", "app.src", "db.sink")}

\* Whether this is the second execution.
Second == earlier # <<>>

\* A second call of find_best_fix, after the first has returned: the same
\* findings are passed, and every local and cohort map is created anew.
Rerun ==
    /\ pc = "returned"
    /\ ~Second
    /\ earlier' = <<[findings |-> findings, annotated_findings |-> annotated_findings,
                     source_cohorts |-> source_cohorts, sink_cohorts |-> sink_cohorts,
                     source_sink_cohorts |-> source_sink_cohorts, report |-> report]>>
    /\ pc' = "loop"
    /\ findings' = <<>>
    /\ files_loc_list' = <<>> /\ tracked_list' = <<>> /\ methods_list' = <<>>
    /\ check_methods' = {}
    /\ source_method' = "" /\ sink_method' = "" /\ symbol' = ""
    /\ annotated_findings' = <<>>
    /\ source_cohorts' = EmptyMap /\ sink_cohorts' = EmptyMap
    /\ source_sink_cohorts' = EmptyMap
    /\ report' = {}
    /\ UNCHANGED call

\* The findings of the second execution are those of the first, read in the same order.
SameFinding == earlier[1].findings[Len(findings)]
NextHeaders ==
    IF ~Second THEN TwiceHeaders
    ELSE IF Len(findings) < Len(earlier[1].findings)
    THEN LET f == earlier[1].findings[Len(findings) + 1]
         IN  {Header(f.category, f.type, f.source_method, f.sink_method)}
    ELSE {}
NextSteps ==
    IF ~Second THEN (IF Len(dataflows) < MaxTwice THEN TwiceSteps ELSE {})
    ELSE IF Len(dataflows) < Len(SameFinding.dataflow)
    THEN {SameFinding.dataflow[Len(dataflows) + 1]}
    ELSE {}
WalkDone == pc = "walk" /\ (Second => dataflows = SameFinding.dataflow)
BatchDone == Second => Len(findings) = Len(earlier[1].findings)

NextTwice ==
    \/ StartFinding(NextHeaders, 1)
    \/ WalkStep(NextSteps)
    \/ WalkDone /\ Decide
    \/ BatchDone /\ Return
    \/ Rerun

SpecTwice == Init /\ [][NextTwice]_vars

(***************************************************************************)
(* SpecDecode: one finding, traces over file names with percent-encoded    *)
(* characters, of up to MaxDecode steps.                                   *)
(***************************************************************************)

MaxDecode == 3

\* One location under its encoded and its plain name, another location, and
\* a step that is skipped.
StepEncoded == Step("my%20app.py", 3, "app.views.show", "show", "item", "", "")
StepPlain   == Step("my app.py", 3, "app.views.show", "show", "item", "", "")
DecodeSteps == {StepEncoded, StepPlain, StepHandler, StepNoFile}
DecodeHeaders == {Header("SQL Injection", "vuln", "app.src", "db.sink")}

NextDecode ==
    \/ StartFinding(DecodeHeaders, 1)
    \/ WalkStep(IF Len(dataflows) < MaxDecode THEN DecodeSteps ELSE {})
    \/ Decide
    \/ Return

SpecDecode == Init /\ [][NextDecode]_vars

(***************************************************************************)
(* SpecCode: get_code called on its own, on a file of the source tree or a *)
(* missing one, a target line, a trail of symbols and a max_lines.         *)
(***************************************************************************)

MaxLineno == 6
MaxWindow == 4

\* File names: found under source_dir, found under src/main/java, missing.
CodeFiles == {"a.py", "c.py", "d.py", "Dao.java", "gone.py"}

\* Trails: empty, symbols of several lines, stoplisted and $ symbols.
CodeVariables == {<<>>, <<"id", "db">>, <<"key", "id">>, <<"self", "q">>, <<"$id", "tmp">>}

InitCode ==
    /\ pc = "loop"
    /\ findings = <<>>
    /\ files_loc_list = <<>> /\ tracked_list = <<>> /\ methods_list = <<>>
    /\ check_methods = {}
    /\ source_method = "" /\ sink_method = "" /\ symbol = ""
    /\ annotated_findings = <<>>
    /\ source_cohorts = EmptyMap /\ sink_cohorts = EmptyMap
    /\ source_sink_cohorts = EmptyMap
    /\ report = {}
    /\ earlier = <<>>
    /\ \E fname \in CodeFiles, lineno \in 1..MaxLineno, max_lines \in 0..MaxWindow,
          variables \in CodeVariables :
          call = <<[fname |-> fname, lineno |-> lineno, max_lines |-> max_lines,
                    variables |-> variables, returned |-> FALSE,
                    code_snippet |-> "", variable_detected |-> ""]>>

\* The call of get_code, from its entry to its return.
CallGetCode ==
    /\ call # <<>>
    /\ ~call[1].returned
    /\ LET code == GetCode(call[1].fname, call[1].lineno, call[1].variables,
                           call[1].max_lines)
       IN  call' = <<[call[1] EXCEPT !.returned = TRUE,
                                     !.code_snippet = code.code_snippet,
                                     !.variable_detected = code.variable_detected]>>
    /\ UNCHANGED <<pc, findings, locals, annotated_findings, cohorts, report, earlier>>

NextCode == CallGetCode

SpecCode == InitCode /\ [][NextCode]_vars

(***************************************************************************)
(* What the specification says of find_best_fix                            *)
(***************************************************************************)

\* The record of the current finding has just been appended: the locals are
\* still those of its walk.
Emitted ==
    /\ pc = "loop"
    /\ findings # <<>>
    /\ annotated_findings # <<>>
    /\ Last(annotated_findings).id = afinding.id

\* The record of the finding with this id, when there is one.
HasRecord(id) == \E k \in 1..Len(annotated_findings) : annotated_findings[k].id = id
RecordOf(id) ==
    annotated_findings[CHOOSE k \in 1..Len(annotated_findings) : annotated_findings[k].id = id]

\* The finding a record was made for (the ids of a batch are distinct).
FindingOf(id) == findings[CHOOSE k \in 1..Len(findings) : findings[k].id = id]

\* A finding the specification lets through: type "vuln", and a category that
\* names neither Sensitive data nor Log forging.
QualifiesBySpec(f) ==
    f.type = "vuln" /\ ~Contains("Sensitive", f.category) /\ ~Contains("Log", f.category)

\* The text find_best_fix stores for a text: its newlines escaped.
Stored(text) == Replace(text, "\n", "\\n")

\* C1: no finding aborts the batch. find_best_fix never leaves by an
\* exception; between two findings every qualifying finding read so far has
\* its record, and one with an empty dataflow list has a record with an empty
\* tracked_list and the fallback text.
C1_NoFindingAbortsBatch ==
    /\ pc # "raised"
    /\ pc = "loop" =>
          \A k \in 1..Len(findings) :
              QualifiesBySpec(findings[k]) =>
                  /\ HasRecord(findings[k].id)
                  /\ findings[k].dataflow = <<>> =>
                        /\ RecordOf(findings[k].id).tracked_list = ""
                        /\ Contains("This is likely a best practice finding.",
                                    RecordOf(findings[k].id).best_fix)

\* C2: the record of a qualifying finding whose source_method equals its
\* sink_method (as the walk has set them) has the
\* false-positive text and an empty variable_detected.
C2_SameMethodNoVariable ==
    \A k \in 1..Len(annotated_findings) :
        (/\ QualifiesBySpec(FindingOf(annotated_findings[k].id))
         /\ annotated_findings[k].source_method = annotated_findings[k].sink_method) =>
            /\ Contains("best practice finding or a false positive",
                        annotated_findings[k].best_fix)
            /\ annotated_findings[k].variable_detected = ""

\* The symbol of a step by the precedence Parameter > Member (last dotted
\* segment) > Local.
SymbolByPrecedence(df) ==
    IF df.Parameter # "" THEN df.Parameter
    ELSE IF df.Member # "" THEN Last(Split(df.Member, "."))
    ELSE df.Local

\* C3: after the walk has read a step it does not skip, the symbol it offers
\* to the trail is the one the precedence Parameter > Member > Local gives.
C3_SymbolPrecedence ==
    (pc = "walk" /\ dataflows # <<>> /\ ~Skipped(Last(dataflows)))
        => symbol = SymbolByPrecedence(Last(dataflows))

\* The symbols the specification keeps out of the trail.
SpecStoplist == {"this", "self", "req", "res", "p1"}
Stoplisted(sym) == sym \in SpecStoplist \/ Contains("____obj", sym)

\* C4: at every point of the walk tracked_list holds no stoplisted symbol,
\* and neither does the tracked_list field of any record.
C4_StoplistInvariant ==
    /\ \A k \in 1..Len(tracked_list) : ~Stoplisted(tracked_list[k])
    /\ \A k \in 1..Len(annotated_findings) :
          \A sym \in {Split(annotated_findings[k].tracked_list, "\n")[i] :
                         i \in 1..Len(Split(annotated_findings[k].tracked_list, "\n"))} :
              ~Stoplisted(sym)

\* The ids of a sequence of findings or records.
Ids(seq) == [k \in 1..Len(seq) |-> seq[k].id]

\* The ids held anywhere in a cohort map.
CohortIds(m) == UNION {{m[p][i] : i \in 1..Len(m[p])} : p \in DOMAIN m}

\* C5: between two findings, the records are those of the qualifying findings
\* read so far, one each and in input order, and the cohort maps hold the ids
\* of these findings and no others.
C5_QualificationFilter ==
    pc = "loop" =>
        /\ Ids(annotated_findings) = Ids(SelectSeq(findings, QualifiesBySpec))
        /\ \A m \in {source_cohorts, sink_cohorts, source_sink_cohorts} :
              CohortIds(m) = {f.id : f \in {findings[k] : k \in
                                 {j \in 1..Len(findings) : QualifiesBySpec(findings[j])}}}

\* The location trail of a whole dataflow list: the walk's files_loc_list.
RECURSIVE LocationTrail(_, _, _)
LocationTrail(dataflow, k, fl) ==
    IF k > Len(dataflow) THEN fl
    ELSE LocationTrail(dataflow, k + 1,
                       IF Skipped(dataflow[k]) THEN fl ELSE AppendLocation(fl, dataflow[k]))

\* Whether a location names a markup file, as find_best_fix tells.
LooksLikeMarkup(location) == Contains("html", location)

\* The sink among the locations, by the rule of the specification.
SinkBySpec(fl) ==
    IF Len(fl) > 2 /\ LooksLikeMarkup(fl[Len(fl)]) THEN fl[Len(fl) - 1] ELSE fl[Len(fl)]

\* The combined-cohort key of a finding that has been read whole.
PairKeyOf(f) ==
    LET fl == LocationTrail(f.dataflow, 1, <<>>)
    IN  fl[1] \o "|" \o SinkBySpec(fl)

\* The findings read so far with this category and this combined key, in order.
RECURSIVE CohortMembers(_, _, _)
CohortMembers(k, category, key) ==
    IF k > Len(findings) THEN <<>>
    ELSE (IF QualifiesBySpec(findings[k]) /\ findings[k].category = category
             /\ PairKeyOf(findings[k]) = key
          THEN <<findings[k].id>> ELSE <<>>) \o CohortMembers(k + 1, category, key)

\* The <<category, key>> pairs of the qualifying findings read so far.
CohortKeys ==
    {<<findings[k].category, PairKeyOf(findings[k])>> :
        k \in {j \in 1..Len(findings) : QualifiesBySpec(findings[j])}}

FileOf(location) == Split(location, ":")[1]
LineOf(location) == StrToInt(Last(Split(location, ":")))

Abs(n) == IF n < 0 THEN -n ELSE n

\* C7: the best_fix of a qualifying finding with a location block always has the line "Before or at
\* line L in <sink file>", and has the line "After line L2 in <source file>"
\* exactly when source and sink are in different files or more than 3 lines
\* apart, in either direction.
C7_LocationAnchors ==
    (/\ Emitted
     /\ QualifiesBySpec(afinding)
     /\ Contains("**Fix locations:**", Last(annotated_findings).best_fix)) =>
        LET first == files_loc_list[1]
            last == Last(annotated_findings).last_location
            text == Last(annotated_findings).best_fix
        IN  /\ Contains("- Before or at line " \o IntToStr(LineOf(last)) \o " in "
                        \o FileOf(last), text)
            /\ Contains("- After line " \o IntToStr(LineOf(first)) \o " in " \o FileOf(first),
                        text)
                  <=> (FileOf(first) # FileOf(last) \/ Abs(LineOf(last) - LineOf(first)) > 3)

\* C8: for a qualifying finding with a check method detected, the suggestion
\* naming the check methods is appended to the text of the
\* rule that fired; with two different methods and an empty trail (rule 4)
\* the text before it is the generic best-practice text.
C8_CheckMethodsAppended ==
    \A k \in 1..Len(annotated_findings) :
        LET a == annotated_findings[k]
        IN  (QualifiesBySpec(FindingOf(a.id)) /\ a.check_methods # "") =>
                /\ Contains("Include these detected CHECK methods", a.best_fix)
                /\ (a.source_method # a.sink_method /\ a.tracked_list = "") =>
                       Contains("This is likely a best practice finding.", a.best_fix)

\* C9: in the trail branch (two different methods, no symbol in the snippet, a
\* trail that is not empty) a trail of more than 4 symbols is summarised as
\* "<first>, <second-to-last> and <last>" with the wording Variables, and a
\* trail of 1 to 4 symbols gives its last symbol with the wording Parameter.
C9_TrailSummary ==
    (/\ Emitted
     /\ source_method # sink_method
     /\ tracked_list # <<>>
     /\ GetCode(FileOf(Last(annotated_findings).last_location),
                LineOf(Last(annotated_findings).last_location),
                tracked_list, 3).variable_detected = "") =>
        LET a == Last(annotated_findings)
            n == Len(tracked_list)
        IN  IF n > 4
            THEN /\ a.variable_detected
                      = tracked_list[1] \o ", " \o tracked_list[n - 1] \o " and " \o tracked_list[n]
                 /\ Contains("**Taint:** Variables '" \o a.variable_detected \o "'", a.best_fix)
                 /\ Contains("Sanitize the Variables '" \o a.variable_detected \o "'", a.best_fix)
            ELSE /\ a.variable_detected = tracked_list[n]
                 /\ Contains("**Taint:** Parameter '" \o a.variable_detected \o "'", a.best_fix)
                 /\ Contains("Sanitize the Parameter '" \o a.variable_detected \o "'", a.best_fix)

\* The trail s1..s5 is summarised by three of its symbols.
C9_Witness ==
    /\ Emitted
    /\ tracked_list = <<"s1", "s2", "s3", "s4", "s5">>
    /\ Last(annotated_findings).variable_detected = "s1, s4 and s5"
    /\ Contains("**Taint:** Variables 's1, s4 and s5'", Last(annotated_findings).best_fix)

\* C10: last_location is the last location of the walk, or the one before it
\* when the last one is a markup file and there are more than two; the cohort
\* keys, the snippet and the location block all use it.
C10_SinkSelection ==
    Emitted =>
        LET a == Last(annotated_findings)
            n == Len(files_loc_list)
        IN  /\ a.last_location
                  = IF n > 2 /\ LooksLikeMarkup(files_loc_list[n])
                    THEN files_loc_list[n - 1] ELSE files_loc_list[n]
            /\ files_loc_list = <<"a.py:1", "b.html:2", "c.py:3">> => a.last_location = "c.py:3"
            /\ a.id \in {CohortGet(sink_cohorts, a.category, a.last_location)[i] :
                            i \in 1..Len(CohortGet(sink_cohorts, a.category, a.last_location))}
            /\ LET key == files_loc_list[1] \o "|" \o a.last_location
               IN  a.id \in {CohortGet(source_sink_cohorts, a.category, key)[i] :
                               i \in 1..Len(CohortGet(source_sink_cohorts, a.category, key))}
            /\ a.code_snippet
                  = Stored(GetCode(FileOf(a.last_location), LineOf(a.last_location),
                                   tracked_list, 3).code_snippet)
            /\ Contains("**Fix locations:**", a.best_fix) =>
                  Contains("- Before or at line " \o IntToStr(LineOf(a.last_location))
                           \o " in " \o FileOf(a.last_location), a.best_fix)

\* A markup file is the last of three locations and the one before it is the sink.
C10_Witness ==
    /\ Emitted
    /\ files_loc_list = <<"a.py:1", "c.py:3", "b.html:2">>
    /\ Last(annotated_findings).last_location = "c.py:3"


\* C11: two executions of find_best_fix on the same findings in the same
\* order give the same records, field by field (the joined check_methods and
\* the list of check methods in best_fix included), the same cohort maps
\* and the same cohort report.
C11_Determinism ==
    (pc = "returned" /\ Second /\ findings = earlier[1].findings) =>
        /\ annotated_findings = earlier[1].annotated_findings
        /\ source_cohorts = earlier[1].source_cohorts
        /\ sink_cohorts = earlier[1].sink_cohorts
        /\ source_sink_cohorts = earlier[1].source_sink_cohorts
        /\ report = earlier[1].report

(***************************************************************************)
(* What the specification says of get_code                                 *)
(***************************************************************************)

\* The lines of the file get_code reads for fname, <<>> when there is none.
FileLines(fname) ==
    LET hits == {k \in 1..Len(SourceTree) : SourceTree[k][1] = ResolvePath(fname)}
    IN  IF hits = {} THEN <<>> ELSE SourceTree[CHOOSE k \in hits : TRUE][2]

\* The lines of a snippet, each without its newline.
SnippetLines(code_snippet) ==
    LET parts == Split(code_snippet, "\n") IN SubSeq(parts, 1, Len(parts) - 1)

\* The window of the specification: max_lines lines from lmin on.
WindowSize(c) == Max(c.max_lines, 1)
WindowStart(c) == Max(1, c.lineno - (WindowSize(c) \div 2))
EnoughLines(c) == WindowStart(c) + WindowSize(c) - 1 <= Len(FileLines(c.fname))

\* The prefix of a snippet line: its 1-based line number and a space.
HasLineNumber(line, n) ==
    Len(line) > Len(IntToStr(n)) /\ SubSeq(line, 1, Len(IntToStr(n)) + 1) = IntToStr(n) \o " "

\* C12: on a file with enough lines the snippet of get_code has exactly
\* max_lines lines (1 for a max_lines below 1), they are the consecutive lines
\* from lmin = max(1, lineno - max_lines // 2) on, each with its line number
\* in front, and the target line is one of them.
C12_SnippetWindow ==
    \A k \in 1..Len(call) :
        LET c == call[k]
            lines == SnippetLines(c.code_snippet)
        IN  (c.returned /\ EnoughLines(c)) =>
                /\ Len(lines) = WindowSize(c)
                /\ \A i \in 1..Len(lines) : HasLineNumber(lines[i], WindowStart(c) + i - 1)
                /\ \E i \in 1..Len(lines) : HasLineNumber(lines[i], c.lineno)

\* The numbers of the lines a snippet shows, and their text in the file.
ShownLines(c) ==
    WindowStart(c)..(WindowStart(c) + Len(SnippetLines(c.code_snippet)) - 1)
RawLine(c, n) == FileLines(c.fname)[n]

\* A symbol the snippet may report: not in the stoplist, no $ in it.
Highlightable(var) == var \notin SpecStoplist /\ ~Contains("$", var)

\* The indices of the symbols of the trail that occur somewhere in the snippet.
Occurring(c) ==
    {k \in 1..Len(c.variables) :
        /\ Highlightable(c.variables[k])
        /\ \E n \in ShownLines(c) : Contains(c.variables[k], RawLine(c, n))}
FirstOccurring(c) ==
    IF Occurring(c) = {} THEN ""
    ELSE c.variables[CHOOSE k \in Occurring(c) : \A j \in Occurring(c) : k <= j]

\* The snippet with spacing put around one symbol only ("" for none).
RECURSIVE SnippetWith(_, _, _)
SnippetWith(c, var, n) ==
    IF n \notin ShownLines(c) THEN ""
    ELSE IntToStr(n) \o " "
         \o (IF var = "" THEN RawLine(c, n) ELSE Highlight(RawLine(c, n), var))
         \o SnippetWith(c, var, n + 1)

\* C13: the symbol get_code returns is the first symbol of the trail, in
\* trail order, that is not stoplisted and occurs in some line of the snippet,
\* whichever line that is; spacing is put around one symbol at most in the
\* whole snippet; when no symbol occurs the symbol returned is "" and the
\* snippet is the text of the file.
C13_SnippetSymbol ==
    \A k \in 1..Len(call) :
        LET c == call[k]
        IN  c.returned =>
                /\ c.variable_detected = FirstOccurring(c)
                /\ \E var \in {""} \cup {c.variables[j] : j \in 1..Len(c.variables)} :
                       c.code_snippet = SnippetWith(c, var, WindowStart(c))
                /\ FirstOccurring(c) = "" =>
                       c.code_snippet = SnippetWith(c, "", WindowStart(c))

(***************************************************************************)
(* What the specification says of the location trail                       *)
(***************************************************************************)

\* The location trail of the specification: the percent-decoded file:line of
\* every step that is not skipped, each location once, in first-seen order.
RECURSIVE DecodedTrail(_, _, _)
DecodedTrail(dataflow, k, fl) ==
    IF k > Len(dataflow) THEN fl
    ELSE LET location == Unquote(LocLine(dataflow[k]))
         IN  DecodedTrail(dataflow, k + 1,
                 IF Skipped(dataflow[k]) \/ (\E j \in 1..Len(fl) : fl[j] = location)
                 THEN fl ELSE Append(fl, location))

NoDuplicate(fl) == \A i, j \in 1..Len(fl) : i # j => fl[i] # fl[j]

\* C14: at every point of the walk over the steps of a finding, files_loc_list
\* holds the percent-decoded file:line strings of the steps seen so far that
\* are not skipped, in first-seen order, and no entry twice.
C14_LocationTrail ==
    pc = "walk" =>
        /\ files_loc_list = DecodedTrail(dataflows, 1, <<>>)
        /\ NoDuplicate(files_loc_list)

=============================================================================
